---- MODULE Spec2Model ----
(***************************************************************************)
(* Analogue circuit simulator (project.cpp): the component classes, the    *)
(* circuit class that aggregates them, and main's eight topologies.        *)
(*                                                                         *)
(* Numbers.  A C++ double is modelled as a binary floating-point number    *)
(* with round-to-nearest-even, as IEEE 754 prescribes, but with a          *)
(* significand of Precision bits instead of 53 and no exponent limits.     *)
(* A value is a pair <<n, d>>:                                             *)
(*     d > 0   the finite number n/d, in lowest terms (zero is <<0, 1>>)   *)
(*     <<1, 0>>, <<-1, 0>>   +infinity, -infinity                          *)
(*     <<0, 0>>              NaN                                           *)
(* The sign of zero is not tracked: every zero divisor of the model is a   *)
(* product of non-negative parameters, that is +0.                         *)
(* A std::complex<double> is a pair <<re, im>> of such values.             *)
(***************************************************************************)
EXTENDS Integers, Sequences, FiniteSets

\* Bits of significand of the modelled double.
Precision == 3

\* --------------------------------------------------------------- doubles

RECURSIVE Gcd(_, _)
Gcd(a, b) == IF b = 0 THEN a ELSE Gcd(b, a % b)

Abs(n) == IF n < 0 THEN -n ELSE n

RECURSIVE Pow2(_)
Pow2(k) == IF k = 0 THEN 1 ELSE 2 * Pow2(k - 1)

\* The rational n/d (d > 0) in lowest terms.
Q(n, d) == LET g == Gcd(Abs(n), d) IN <<n \div g, d \div g>>

NaN == <<0, 0>>
PInf == <<1, 0>>
NInf == <<-1, 0>>
Zero == <<0, 1>>
One == <<1, 1>>

IsNaN(x) == x = NaN
IsInf(x) == x[2] = 0 /\ x[1] # 0
IsFinite(x) == x[2] > 0
IsZero(x) == x = Zero
Sign(x) == IF x[1] < 0 THEN -1 ELSE IF x[1] > 0 THEN 1 ELSE 0
Inf(s) == IF s < 0 THEN NInf ELSE PInf

\* Scale the positive rational n/d by powers of two until it lies in
\* [2^(Precision-1), 2^Precision); e counts the powers taken out.
SigTop == Pow2(Precision)
SigLow == Pow2(Precision - 1)

RECURSIVE Scale(_, _, _)
Scale(n, d, e) ==
    IF n \div SigTop >= d
    THEN (IF n % 2 = 0 THEN Scale(n \div 2, d, e + 1) ELSE Scale(n, 2 * d, e + 1))
    ELSE IF n \div SigLow < d
    THEN (IF d % 2 = 0 THEN Scale(n, d \div 2, e - 1) ELSE Scale(2 * n, d, e - 1))
    ELSE <<n, d, e>>

\* The double of significand k and exponent e: k * 2^e.
Value(k, e) == IF e >= 0 THEN Q(k * Pow2(e), 1) ELSE Q(k, Pow2(-e))

\* m + r/d (0 <= r < d) to the nearest integer, ties to the even one.
Nearest(m, r, d) ==
    IF 2 * r > d \/ (2 * r = d /\ m % 2 = 1) THEN m + 1 ELSE m

\* The scaled rational s = <<n, d, e>> as a double.
Rounded(s) == Value(Nearest(s[1] \div s[2], s[1] % s[2], s[2]), s[3])

\* The positive rational n/d rounded to Precision significant bits,
\* ties to the even significand.
RoundPos(n, d) == Rounded(Scale(n, d, 0))

\* The rational n/d (d > 0) as the nearest double.
Round(n, d) ==
    IF n = 0 THEN Zero
    ELSE IF n > 0 THEN RoundPos(n, d)
    ELSE LET p == RoundPos(-n, d) IN <<-p[1], p[2]>>

FNeg(x) == <<-x[1], x[2]>>

\* The largest k with 2^k <= n, for n >= 1.
RECURSIVE ILog2(_)
ILog2(n) == IF n < 2 THEN 0 ELSE 1 + ILog2(n \div 2)

\* The binary exponent of a finite nonzero double: 2^Exponent(x) <= |x| <
\* 2^(Exponent(x) + 1).  The denominator of a double is a power of two.
Exponent(x) == ILog2(Abs(x[1])) - ILog2(x[2])

\* double + double.  A term below a quarter of the other's unit in the
\* last place does not change the rounded sum.
FAdd(x, y) ==
    IF IsNaN(x) \/ IsNaN(y) THEN NaN
    ELSE IF IsInf(x) /\ IsInf(y) THEN (IF x = y THEN x ELSE NaN)
    ELSE IF IsInf(x) THEN x
    ELSE IF IsInf(y) THEN y
    ELSE IF IsZero(x) THEN y
    ELSE IF IsZero(y) THEN x
    ELSE IF Exponent(x) - Exponent(y) > Precision + 1 THEN x
    ELSE IF Exponent(y) - Exponent(x) > Precision + 1 THEN y
    ELSE LET l == (x[2] \div Gcd(x[2], y[2])) * y[2]
         IN  Round(x[1] * (l \div x[2]) + y[1] * (l \div y[2]), l)

FSub(x, y) == FAdd(x, FNeg(y))

\* double * double
FMul(x, y) ==
    IF IsNaN(x) \/ IsNaN(y) THEN NaN
    ELSE IF IsInf(x) \/ IsInf(y)
         THEN (IF IsZero(x) \/ IsZero(y) THEN NaN ELSE Inf(Sign(x) * Sign(y)))
    ELSE LET g == Gcd(Abs(x[1]), y[2])
             h == Gcd(Abs(y[1]), x[2])
         IN  Round((x[1] \div g) * (y[1] \div h), (x[2] \div h) * (y[2] \div g))

\* double / double
FDiv(x, y) ==
    IF IsNaN(x) \/ IsNaN(y) THEN NaN
    ELSE IF IsInf(x) THEN (IF IsInf(y) THEN NaN
                           ELSE IF IsZero(y) THEN x
                           ELSE Inf(Sign(x) * Sign(y)))
    ELSE IF IsInf(y) THEN Zero
    ELSE IF IsZero(y) THEN (IF IsZero(x) THEN NaN ELSE Inf(Sign(x)))
    ELSE LET g == Gcd(Abs(x[1]), Abs(y[1]))
             h == Gcd(x[2], y[2])
         IN  Round((x[1] \div g) * (y[2] \div h) * Sign(y),
                   (x[2] \div h) * (Abs(y[1]) \div g))

\* The largest m in lo..hi with m*m*d <= n (lo satisfies it).
RECURSIVE SqrtFloor(_, _, _, _)
SqrtFloor(n, d, lo, hi) ==
    IF lo = hi THEN lo
    ELSE LET mid == (lo + hi + 1) \div 2
         IN  IF mid * mid * d <= n THEN SqrtFloor(n, d, mid, hi)
             ELSE SqrtFloor(n, d, lo, mid - 1)

\* Scale the positive rational n/d by powers of four until it lies in
\* [4^(Precision-1), 4^Precision).
RECURSIVE Scale4(_, _, _)
Scale4(n, d, e) ==
    IF n \div (SigTop * SigTop) >= d
    THEN (IF n % 4 = 0 THEN Scale4(n \div 4, d, e + 1) ELSE Scale4(n, 4 * d, e + 1))
    ELSE IF n \div (SigLow * SigLow) < d
    THEN (IF d % 4 = 0 THEN Scale4(n, d \div 4, e - 1) ELSE Scale4(4 * n, d, e - 1))
    ELSE <<n, d, e>>

\* The root of the scaled rational s = <<n, d, e>>, m being the floor of
\* the root of n/d:  n/d > (m + 1/2)^2  <=>  4 n > (2m + 1)^2 d.
RootFrom(s, m) ==
    Value(IF \/ 4 * s[1] > (2 * m + 1) * (2 * m + 1) * s[2]
             \/ (4 * s[1] = (2 * m + 1) * (2 * m + 1) * s[2] /\ m % 2 = 1)
          THEN m + 1 ELSE m,
          s[3])

Root(s) == RootFrom(s, SqrtFloor(s[1], s[2], SigLow, SigTop))

\* std::sqrt
FSqrt(x) ==
    IF IsNaN(x) \/ x[1] < 0 THEN NaN
    ELSE IF IsInf(x) THEN PInf
    ELSE IF IsZero(x) THEN Zero
    ELSE Root(Scale4(x[1], x[2], 0))

\* -------------------------------------------------------- complex<double>

Complex(re, im) == <<re, im>>
Re(z) == z[1]
Im(z) == z[2]
CZero == Complex(Zero, Zero)

\* complex += complex
CAdd(z, w) == Complex(FAdd(Re(z), Re(w)), FAdd(Im(z), Im(w)))

FAbs(x) == <<Abs(x[1]), x[2]>>

\* x < y on doubles: false when either is NaN
FLess(x, y) ==
    /\ ~IsNaN(x) /\ ~IsNaN(y) /\ x # y
    /\ IF IsInf(x) THEN x = NInf
       ELSE IF IsInf(y) THEN y = PInf
       ELSE x[1] * y[2] < y[1] * x[2]

\* The quotient (a + ib) / (c + id) for |c| < |d|, ratio = c / d and
\* denom = c * ratio + d given.
QuotientByIm(a, b, c, d, ratio, denom) ==
    IF FLess(Zero, FAbs(ratio))
    THEN <<FDiv(FAdd(FMul(a, ratio), b), denom),
           FDiv(FSub(FMul(b, ratio), a), denom)>>
    ELSE <<FDiv(FAdd(FMul(c, FDiv(a, d)), b), denom),
           FDiv(FSub(FMul(c, FDiv(b, d)), a), denom)>>

SmithByIm(a, b, c, d, ratio) ==
    QuotientByIm(a, b, c, d, ratio, FAdd(FMul(c, ratio), d))

\* The quotient for |c| >= |d|, ratio = d / c and denom = d * ratio + c
\* given.
QuotientByRe(a, b, c, d, ratio, denom) ==
    IF FLess(Zero, FAbs(ratio))
    THEN <<FDiv(FAdd(FMul(b, ratio), a), denom),
           FDiv(FSub(b, FMul(a, ratio)), denom)>>
    ELSE <<FDiv(FAdd(FMul(d, FDiv(b, c)), a), denom),
           FDiv(FSub(b, FMul(d, FDiv(a, c))), denom)>>

SmithByRe(a, b, c, d, ratio) ==
    QuotientByRe(a, b, c, d, ratio, FAdd(FMul(d, ratio), c))

\* The quotient (a + ib) / (c + id) before the recovery of infinities and
\* zeros: Smith's algorithm, dividing by the larger of |c| and |d|.  RMIN
\* is the smallest normal double; without exponent limits a ratio exceeds
\* it in magnitude exactly when it is not zero (and not NaN).
Smith(a, b, c, d) ==
    IF FLess(FAbs(c), FAbs(d))
    THEN SmithByIm(a, b, c, d, FDiv(c, d))
    ELSE SmithByRe(a, b, c, d, FDiv(d, c))

\* isinf(x) ? 1 : 0 with the sign of x
Boxed(x) == IF IsInf(x) THEN <<Sign(x), 1>> ELSE Zero

\* The recovery of C99 Annex G for a quotient q = (a + ib) / (c + id)
\* whose parts are both NaN.
Recover(a, b, c, d, q) ==
    IF ~(IsNaN(q[1]) /\ IsNaN(q[2])) THEN q
    ELSE IF IsZero(c) /\ IsZero(d) /\ (~IsNaN(a) \/ ~IsNaN(b))
         THEN Complex(FMul(PInf, a), FMul(PInf, b))
    ELSE IF (IsInf(a) \/ IsInf(b)) /\ IsFinite(c) /\ IsFinite(d)
         THEN Complex(FMul(PInf, FAdd(FMul(Boxed(a), c), FMul(Boxed(b), d))),
                      FMul(PInf, FSub(FMul(Boxed(b), c), FMul(Boxed(a), d))))
    ELSE IF (IsInf(c) \/ IsInf(d)) /\ IsFinite(a) /\ IsFinite(b)
         THEN Complex(FMul(Zero, FAdd(FMul(a, Boxed(c)), FMul(b, Boxed(d)))),
                      FMul(Zero, FSub(FMul(b, Boxed(c)), FMul(a, Boxed(d)))))
    ELSE q

\* complex / complex, as the compiler's runtime computes it (__divdc3):
\* Smith's quotient, then the recovery when both parts are NaN.
CDiv(z, w) ==
    Recover(Re(z), Im(z), Re(w), Im(w), Smith(Re(z), Im(z), Re(w), Im(w)))

\* double / complex: the double is converted to a complex first
RDiv(x, w) == CDiv(Complex(x, Zero), w)

\* x * 2^k, which is exact
RECURSIVE Ldexp(_, _)
Ldexp(x, k) ==
    IF k = 0 \/ ~IsFinite(x) \/ IsZero(x) THEN x
    ELSE IF k > 0
    THEN Ldexp(IF x[2] % 2 = 0 THEN <<x[1], x[2] \div 2>> ELSE <<2 * x[1], x[2]>>,
               k - 1)
    ELSE Ldexp(IF x[1] % 2 = 0 THEN <<x[1] \div 2, x[2]>> ELSE <<x[1], 2 * x[2]>>,
               k + 1)

\* sqrt(a^2 + b^2) * 2^e
Hypot(a, b, e) == Ldexp(FSqrt(FAdd(FMul(a, a), FMul(b, b))), e)

\* std::abs(complex), that is hypot(re, im): the parts are scaled by a
\* power of two before they are squared, and a part too small to reach the
\* last place of the other is dropped.
CAbs(z) ==
    IF IsInf(Re(z)) \/ IsInf(Im(z)) THEN PInf
    ELSE IF IsNaN(Re(z)) \/ IsNaN(Im(z)) THEN NaN
    ELSE IF IsZero(Re(z)) THEN FAbs(Im(z))
    ELSE IF IsZero(Im(z)) THEN FAbs(Re(z))
    ELSE IF Exponent(Re(z)) - Exponent(Im(z)) > Precision + 1 THEN FAbs(Re(z))
    ELSE IF Exponent(Im(z)) - Exponent(Re(z)) > Precision + 1 THEN FAbs(Im(z))
    ELSE Hypot(Ldexp(Re(z), -Exponent(Re(z))), Ldexp(Im(z), -Exponent(Re(z))),
               Exponent(Re(z)))

\* ------------------------------------------------------------- components

\* const double pi = 3.14159265358979323846, as the nearest double
pi == Round(3141592, 1000000)

Two == <<2, 1>>
MinusOne == <<-1, 1>>

\* A component object: the fields of class components plus the derived
\* class's own parameters (par) and its dynamic type.
\* components(): frequency(0); impedance is default-constructed, (0, 0).
components(type, par) ==
    [type |-> type, par |-> par, frequency |-> Zero, impedance |-> CZero]

\* resistor(double r) : resistance(r) { impedance = resistance; }
resistor(r) ==
    [components("Resistor", <<r>>) EXCEPT !.impedance = Complex(r, Zero)]

\* capacitor(double c): impedance = (0, -1.0 / (2.0 * pi * frequency * capacitance))
capacitor(c) ==
    LET b == components("Capacitor", <<c>>)
    IN  [b EXCEPT !.impedance =
            Complex(Zero, FDiv(MinusOne, FMul(FMul(FMul(Two, pi), b.frequency), c)))]

\* inductor(double l): impedance = (0, 2 * pi * inductance)
inductor(l) ==
    [components("Inductor", <<l>>) EXCEPT
        !.impedance = Complex(Zero, FMul(FMul(Two, pi), l))]

\* diode(double c, double r, double is): impedance = (0, resistance)
diode(c, r, is) ==
    [components("Diode", <<c, r, is>>) EXCEPT !.impedance = Complex(Zero, r)]

\* transistor(cc, bc, ec, cev, bev):
\* impedance = (collector_emitter_voltage / collector_current, 0.0)
transistor(cc, bc, ec, cev, bev) ==
    [components("Transistor", <<cc, bc, ec, cev, bev>>) EXCEPT
        !.impedance = Complex(FDiv(cev, cc), Zero)]

\* resistor::set_frequency
resistor_set_frequency(c, f) == [c EXCEPT !.frequency = f]

\* capacitor::set_frequency
capacitor_set_frequency(c, f) ==
    [c EXCEPT !.frequency = f,
              !.impedance = Complex(Zero,
                  FDiv(MinusOne, FMul(FMul(FMul(Two, pi), f), c.par[1])))]

\* inductor::set_frequency with its two statements in the other order:
\* the impedance is computed from the frequency stored before
inductor_set_frequency_stale(c, f) ==
    [c EXCEPT !.frequency = f,
              !.impedance = Complex(Zero,
                  FMul(FMul(FMul(Two, pi), c.frequency), c.par[1]))]

\* inductor::set_frequency
inductor_set_frequency(c, f) ==
    [c EXCEPT !.frequency = f,
              !.impedance = Complex(Zero, FMul(FMul(FMul(Two, pi), f), c.par[1]))]

\* diode::set_frequency; j = std::sqrt(-1) is a double
diode_set_frequency(c, f) ==
    LET capacitance == c.par[1]
        resistance == c.par[2]
        saturation_current == c.par[3]
        omega_s == FDiv(FMul(saturation_current, resistance), capacitance)
        j == FSqrt(MinusOne)
        jw == FMul(FMul(FMul(j, Two), pi), f)
        denom == FAdd(One, FMul(FMul(jw, capacitance), resistance))
    IN  [c EXCEPT !.frequency = f,
                  !.impedance = Complex(FDiv(resistance, denom),
                      FDiv(omega_s, FMul(FMul(jw, capacitance), denom)))]

\* transistor::set_frequency: an empty body
transistor_set_frequency(c, f) == c

\* components::set_frequency, dispatched on the dynamic type
set_frequency(c, f) ==
    CASE c.type = "Resistor" -> resistor_set_frequency(c, f)
      [] c.type = "Capacitor" -> capacitor_set_frequency(c, f)
      [] c.type = "Inductor" -> inductor_set_frequency(c, f)
      [] c.type = "Diode" -> diode_set_frequency(c, f)
      [] c.type = "Transistor" -> transistor_set_frequency(c, f)

\* components::get_frequency: transistor returns the literal 0.0
get_frequency(c) == IF c.type = "Transistor" THEN Zero ELSE c.frequency

\* components::get_impedance
get_impedance(c) == c.impedance

\* components::get_impedance_magnitude
get_impedance_magnitude(c) == CAbs(c.impedance)

\* ---------------------------------------------------------------- circuit

\* circuit() : total_impedance(0.0), frequency(0.0) {}
circuit_new ==
    [component_list |-> <<>>, total_impedance |-> CZero, frequency |-> Zero]

\* The loop of update_impedance_series from member k on; cs are the
\* component objects the member pointers refer to.
RECURSIVE series_loop(_, _, _, _)
series_loop(list, cs, k, total) ==
    IF k > Len(list) THEN total
    ELSE series_loop(list, cs, k + 1, CAdd(total, get_impedance(cs[list[k]])))

\* update_impedance_series without its first statement, total_impedance = 0
update_impedance_series_no_reset(circ, cs) ==
    [circ EXCEPT !.total_impedance =
        series_loop(circ.component_list, cs, 1, circ.total_impedance)]

\* circuit::update_impedance_series
update_impedance_series(circ, cs) ==
    [circ EXCEPT !.total_impedance = series_loop(circ.component_list, cs, 1, CZero)]

\* The loop of update_impedance_parallel from member k on.
RECURSIVE parallel_loop(_, _, _, _)
parallel_loop(list, cs, k, total) ==
    IF k > Len(list) THEN total
    ELSE parallel_loop(list, cs, k + 1,
                       CAdd(total, RDiv(One, get_impedance(cs[list[k]]))))

\* update_impedance_parallel without its last statement, the reciprocal
update_impedance_parallel_no_reciprocal(circ, cs) ==
    [circ EXCEPT !.total_impedance =
        parallel_loop(circ.component_list, cs, 1, CZero)]

\* circuit::update_impedance_parallel
update_impedance_parallel(circ, cs) ==
    [circ EXCEPT !.total_impedance =
        RDiv(One, parallel_loop(circ.component_list, cs, 1, CZero))]

\* add_component_in_series that keeps component_list free of duplicates
add_component_in_series_once(circ, cs, component) ==
    update_impedance_series(
        [circ EXCEPT !.component_list =
            IF \E k \in 1..Len(@) : @[k] = component THEN @
            ELSE Append(@, component)], cs)

\* circuit::add_component_in_series
add_component_in_series(circ, cs, component) ==
    update_impedance_series(
        [circ EXCEPT !.component_list = Append(@, component)], cs)

\* circuit::add_component_in_parallel
add_component_in_parallel(circ, cs, component) ==
    update_impedance_parallel(
        [circ EXCEPT !.component_list = Append(@, component)], cs)

\* circuit::set_frequency with its two recomputations in the other order
circuit_set_frequency_series_last(circ, cs, f) ==
    update_impedance_series(
        update_impedance_parallel([circ EXCEPT !.frequency = f], cs), cs)

\* circuit::set_frequency
circuit_set_frequency(circ, cs, f) ==
    update_impedance_parallel(
        update_impedance_series([circ EXCEPT !.frequency = f], cs), cs)

\* circuit::get_circuit_impedance
get_circuit_impedance(circ) == circ.total_impedance

\* circuit::get_total_impedance_magntiude
get_total_impedance_magntiude(circ) == CAbs(circ.total_impedance)

\* ------------------------------------------------------------------ state

\* Members a circuit may hold.
MaxMembers == 2
\* set_frequency calls made on one component in ComponentSpec.
MaxCalls == 2

R(n) == <<n, 1>>

\* Frequencies the callers of the circuit pass to set_frequency.
Frequencies == {R(0), R(1)}
\* Frequencies passed to a component observed on its own.
ComponentFrequencies == {R(0), R(1), R(2)}

\* The components a caller of the circuit constructs, as main does: a
\* resistor, a capacitor and an inductor.
Parts == <<resistor(R(7)), capacitor(R(1)), inductor(R(1))>>

\* The constructor calls of all five classes.
AllParts ==
    {resistor(R(1)), resistor(R(7)), capacitor(R(1)), capacitor(R(2)),
     inductor(R(1)), inductor(R(0)), diode(R(1), R(1), R(1)),
     transistor(R(1), R(1), R(2), R(2), R(1))}

VARIABLES
    comps,      \* the component objects constructed; a components* is an index
    circuit,    \* the circuit object
    added,      \* per member, the operation that registered it: "series" or "parallel"
    calls,      \* per component, the frequencies passed to its set_frequency
    last,       \* the operation completed last: [op, c, f]
    exception,  \* the exception in flight, "none" when there is none
    main        \* main()'s position and locals

vars == <<comps, circuit, added, calls, last, exception, main>>

Done(op, c, f) == [op |-> op, c |-> c, f |-> f]

\* main() has not been entered: the classes are driven directly.
NoMain == [pc |-> "off"]

NoCalls(cs) == [i \in 1..Len(cs) |-> <<>>]

\* The caller has constructed its components and an empty circuit.
Init ==
    /\ comps = Parts
    /\ circuit = circuit_new
    /\ added = <<>>
    /\ calls = NoCalls(comps)
    /\ last = Done("circuit", 0, Zero)
    /\ exception = "none"
    /\ main = NoMain

\* A caller calls set_frequency(f) on component c.
ComponentSetFrequency(c, f) ==
    /\ comps' = [comps EXCEPT ![c] = set_frequency(@, f)]
    /\ last' = Done("component.set_frequency", c, f)
    /\ UNCHANGED <<circuit, added, calls, exception, main>>

AddComponentInSeries(c) ==
    /\ Len(circuit.component_list) < MaxMembers
    /\ circuit' = add_component_in_series(circuit, comps, c)
    /\ added' = Append(added, "series")
    /\ last' = Done("add_component_in_series", c, Zero)
    /\ UNCHANGED <<comps, calls, exception, main>>

AddComponentInParallel(c) ==
    /\ Len(circuit.component_list) < MaxMembers
    /\ circuit' = add_component_in_parallel(circuit, comps, c)
    /\ added' = Append(added, "parallel")
    /\ last' = Done("add_component_in_parallel", c, Zero)
    /\ UNCHANGED <<comps, calls, exception, main>>

\* circuit.set_frequency(f) that also sets f on every member
CircuitSetFrequencyPropagating(f) ==
    /\ comps' = [k \in 1..Len(comps) |->
                    IF \E m \in 1..Len(circuit.component_list) :
                            circuit.component_list[m] = k
                    THEN set_frequency(comps[k], f) ELSE comps[k]]
    /\ circuit' = circuit_set_frequency(circuit, comps', f)
    /\ last' = Done("circuit.set_frequency", 0, f)
    /\ UNCHANGED <<added, calls, exception, main>>

CircuitSetFrequency(f) ==
    /\ circuit' = circuit_set_frequency(circuit, comps, f)
    /\ last' = Done("circuit.set_frequency", 0, f)
    /\ UNCHANGED <<comps, added, calls, exception, main>>

UpdateImpedanceSeries ==
    /\ circuit' = update_impedance_series(circuit, comps)
    /\ last' = Done("update_impedance_series", 0, Zero)
    /\ UNCHANGED <<comps, added, calls, exception, main>>

UpdateImpedanceParallel ==
    /\ circuit' = update_impedance_parallel(circuit, comps)
    /\ last' = Done("update_impedance_parallel", 0, Zero)
    /\ UNCHANGED <<comps, added, calls, exception, main>>

Next ==
    \/ \E c \in 1..Len(comps), f \in Frequencies : ComponentSetFrequency(c, f)
    \/ \E c \in 1..Len(comps) : AddComponentInSeries(c)
    \/ \E c \in 1..Len(comps) : AddComponentInParallel(c)
    \/ \E f \in Frequencies : CircuitSetFrequency(f)
    \/ UpdateImpedanceSeries
    \/ UpdateImpedanceParallel

Spec == Init /\ [][Next]_vars

\* ------------------------------------------------- one component, observed

\* Two objects constructed by the same constructor call.
ComponentInit ==
    /\ \E part \in AllParts : comps = <<part, part>>
    /\ circuit = circuit_new
    /\ added = <<>>
    /\ calls = NoCalls(comps)
    /\ last = Done("construct", 0, Zero)
    /\ exception = "none"
    /\ main = NoMain

\* set_frequency(f) on component c, the call recorded.
RecordedSetFrequency(c, f) ==
    /\ Len(calls[c]) < MaxCalls
    /\ comps' = [comps EXCEPT ![c] = set_frequency(@, f)]
    /\ calls' = [calls EXCEPT ![c] = Append(@, f)]
    /\ last' = Done("component.set_frequency", c, f)
    /\ UNCHANGED <<circuit, added, exception, main>>

ComponentNext ==
    \E c \in 1..Len(comps), f \in ComponentFrequencies : RecordedSetFrequency(c, f)

ComponentSpec == ComponentInit /\ [][ComponentNext]_vars

\* ------------------------------------------------------------------- main

\* A line of standard input as operator>> and peek() meet it: a number
\* alone on the line ("number"), a number followed by other characters
\* ("trailing"), or text that is no number ("junk").
Line(kind, n) == [kind |-> kind, n |-> n]

Lines(ns) ==
    {Line("number", n) : n \in ns} \cup {Line("trailing", n) : n \in ns}
        \cup {Line("junk", 0)}

\* The lines a user types at the three kinds of prompt.
SelectorLines == Lines(0..9)
FrequencyLines == Lines({-1, 0, 1, 2})
ValueLines == Lines({0, 1, 7})

\* std::cin >> circuit_type: true when the extraction succeeds
Extracts(line) == line.kind # "junk"

\* The int operator>> stores; 0 when the extraction fails.
ExtractedInt(line) == IF Extracts(line) THEN line.n ELSE 0

\* The double operator>> stores; 0 when the extraction fails.
ExtractedDouble(line) == IF Extracts(line) THEN Round(line.n, 1) ELSE Zero

\* std::cin.peek() != '\n' after the extraction
PeekIsNotNewline(line) == line.kind = "trailing"

\* The condition of the while loop around the circuit_type prompt.
CircuitTypeRejected(line) ==
    \/ ~Extracts(line)
    \/ ExtractedInt(line) < 1
    \/ ExtractedInt(line) > 8
    \/ PeekIsNotNewline(line)

\* The condition of the while loop around the frequency prompt.
FrequencyRejected(line) ==
    \/ ~Extracts(line)
    \/ ExtractedDouble(line) = Zero
    \/ Sign(ExtractedDouble(line)) < 0
    \/ PeekIsNotNewline(line)

\* The same condition without its std::cin.peek() != '\n' operand.
ValueRejectedWithoutPeek(line) == ~Extracts(line)

\* The condition of the while loops around the r_value, c_value and
\* l_value prompts.
ValueRejected(line) == ~Extracts(line) \/ PeekIsNotNewline(line)

\* The branches of main that call add_component_in_series.
SeriesTopologies == {2, 3, 5, 7}

\* The local component objects of branch t, in the order of declaration,
\* which is also the order of the prompts.
Declared(t) ==
    CASE t \in {1, 2} -> <<"r", "c", "l">>
      [] t \in {3, 4} -> <<"r", "l">>
      [] t \in {5, 6} -> <<"r", "c">>
      [] t \in {7, 8} -> <<"c", "l">>

\* The order in which branch t adds them to the circuit, sets their
\* frequency and copies them into component_library.
Wired(t) == IF t \in {7, 8} THEN <<"l", "c">> ELSE Declared(t)

Each(op, names) == [k \in 1..Len(names) |-> [op |-> op, arg |-> names[k]]]

Stmt(op) == <<[op |-> op, arg |-> "-"]>>

\* The statements of branch t of main, in program order.
Program(t) ==
    Stmt("circuit")
    \o Each("read", Declared(t))
    \o Each("construct", Declared(t))
    \o Each(IF t \in SeriesTopologies THEN "add_component_in_series"
            ELSE "add_component_in_parallel", Wired(t))
    \o Each("set_frequency", Wired(t))
    \o Stmt("circuit.set_frequency")
    \o Each("push_back", Wired(t))
    \o (IF t \in SeriesTopologies THEN Stmt("update_impedance_series") ELSE <<>>)
    \o Stmt("display")
    \o Stmt("list")
    \o Stmt("return")

\* main's locals on entry: component_library is empty; circuit_type, freq
\* and the three values are written by operator>> before they are read.
\* line is the line of input consumed last, out the text printed last.
MainEntry ==
    [pc |-> "circuit_type",
     circuit_type |-> 0,
     freq |-> Zero,
     value |-> [n \in {"r", "c", "l"} |-> Zero],
     ip |-> 1,
     objects |-> <<>>,
     component_library |-> <<>>,
     line |-> Line("none", 0),
     out |-> "Choose circuit type",
     shown |-> <<>>,
     listed |-> <<>>,
     status |-> -1]

MainInit ==
    /\ comps = <<>>
    /\ circuit = circuit_new
    /\ added = <<>>
    /\ calls = <<>>
    /\ last = Done("main", 0, Zero)
    /\ exception = "none"
    /\ main = MainEntry

\* The statement main is at, inside the branch of circuit_type.
Statement == Program(main.circuit_type)[main.ip]

At(op) == main.pc = "branch" /\ Statement.op = op

\* The index in comps of the local object named name.
Object(name) == CHOOSE i \in 1..Len(main.objects) : main.objects[i] = name

Advance(m) == [m EXCEPT !.ip = @ + 1]

\* One pass of the loop around the circuit_type prompt.
MainReadCircuitType(line) ==
    /\ main.pc = "circuit_type"
    /\ main' = IF CircuitTypeRejected(line)
               THEN [main EXCEPT !.circuit_type = ExtractedInt(line),
                                 !.line = line,
                                 !.out = "Error: Invalid circuit type"]
               ELSE [main EXCEPT !.circuit_type = ExtractedInt(line),
                                 !.line = line,
                                 !.pc = "freq",
                                 !.out = "Frequency (Hz)"]
    /\ last' = Done("read", 0, Zero)
    /\ UNCHANGED <<comps, circuit, added, calls, exception>>

\* One pass of the loop around the frequency prompt.
MainReadFrequency(line) ==
    /\ main.pc = "freq"
    /\ main' = IF FrequencyRejected(line)
               THEN [main EXCEPT !.freq = ExtractedDouble(line),
                                 !.line = line,
                                 !.out = "Error: Invalid frequency"]
               ELSE [main EXCEPT !.freq = ExtractedDouble(line),
                                 !.line = line,
                                 !.pc = "branch",
                                 !.out = "-"]
    /\ last' = Done("read", 0, Zero)
    /\ UNCHANGED <<comps, circuit, added, calls, exception>>

\* circuit example_circuit;
MainCircuit ==
    /\ At("circuit")
    /\ circuit' = circuit_new
    /\ main' = [Advance(main) EXCEPT !.out = "Enter value"]
    /\ last' = Done("circuit", 0, Zero)
    /\ UNCHANGED <<comps, added, calls, exception>>

\* One pass of the loop around the prompt for r_value, c_value or l_value.
MainReadValue(line) ==
    /\ At("read")
    /\ main' = IF ValueRejected(line)
               THEN [main EXCEPT !.value[Statement.arg] = ExtractedDouble(line),
                                 !.line = line,
                                 !.out = "Error: Invalid value"]
               ELSE [Advance(main) EXCEPT
                                 !.value[Statement.arg] = ExtractedDouble(line),
                                 !.line = line,
                                 !.out = "Enter value"]
    /\ last' = Done("read", 0, Zero)
    /\ UNCHANGED <<comps, circuit, added, calls, exception>>

\* resistor r(r_value); capacitor c(c_value); inductor l(l_value);
MainConstruct ==
    /\ At("construct")
    /\ LET v == main.value[Statement.arg]
       IN  comps' = Append(comps,
                CASE Statement.arg = "r" -> resistor(v)
                  [] Statement.arg = "c" -> capacitor(v)
                  [] Statement.arg = "l" -> inductor(v))
    /\ calls' = Append(calls, <<>>)
    /\ main' = [Advance(main) EXCEPT !.objects = Append(@, Statement.arg),
                                     !.out = "-"]
    /\ last' = Done("construct", Len(comps) + 1, Zero)
    /\ UNCHANGED <<circuit, added, exception>>

\* example_circuit.add_component_in_series(&x);
MainAddComponentInSeries ==
    /\ At("add_component_in_series")
    /\ circuit' = add_component_in_series(circuit, comps, Object(Statement.arg))
    /\ added' = Append(added, "series")
    /\ main' = Advance(main)
    /\ last' = Done("add_component_in_series", Object(Statement.arg), Zero)
    /\ UNCHANGED <<comps, calls, exception>>

\* example_circuit.add_component_in_parallel(&x);
MainAddComponentInParallel ==
    /\ At("add_component_in_parallel")
    /\ circuit' = add_component_in_parallel(circuit, comps, Object(Statement.arg))
    /\ added' = Append(added, "parallel")
    /\ main' = Advance(main)
    /\ last' = Done("add_component_in_parallel", Object(Statement.arg), Zero)
    /\ UNCHANGED <<comps, calls, exception>>

\* x.set_frequency(freq);
MainComponentSetFrequency ==
    /\ At("set_frequency")
    /\ LET c == Object(Statement.arg)
       IN  /\ comps' = [comps EXCEPT ![c] = set_frequency(@, main.freq)]
           /\ calls' = [calls EXCEPT ![c] = Append(@, main.freq)]
           /\ last' = Done("component.set_frequency", c, main.freq)
    /\ main' = Advance(main)
    /\ UNCHANGED <<circuit, added, exception>>

\* example_circuit.set_frequency(freq);
MainCircuitSetFrequency ==
    /\ At("circuit.set_frequency")
    /\ circuit' = circuit_set_frequency(circuit, comps, main.freq)
    /\ main' = Advance(main)
    /\ last' = Done("circuit.set_frequency", 0, main.freq)
    /\ UNCHANGED <<comps, added, calls, exception>>

\* component_library.push_back(std::make_unique<X>(x)): a copy of x
MainPushBack ==
    /\ At("push_back")
    /\ main' = [Advance(main) EXCEPT
                   !.component_library = Append(@, comps[Object(Statement.arg)])]
    /\ last' = Done("push_back", Object(Statement.arg), Zero)
    /\ UNCHANGED <<comps, circuit, added, calls, exception>>

\* The series branches pass straight on to the display.
MainSkipUpdateImpedanceSeries ==
    /\ At("update_impedance_series")
    /\ main' = Advance(main)
    /\ last' = Done("update_impedance_series", 0, Zero)
    /\ UNCHANGED <<comps, circuit, added, calls, exception>>

\* example_circuit.update_impedance_series(); in the series branches
MainUpdateImpedanceSeries ==
    /\ At("update_impedance_series")
    /\ circuit' = update_impedance_series(circuit, comps)
    /\ main' = Advance(main)
    /\ last' = Done("update_impedance_series", 0, Zero)
    /\ UNCHANGED <<comps, added, calls, exception>>

\* "Total Impedance Magnitude at " << freq << ... : the total is read for
\* display.  The phase, std::arg of the same total, is printed beside it.
MainDisplay ==
    /\ At("display")
    /\ main' = [Advance(main) EXCEPT
                   !.out = "Total Impedance Magnitude",
                   !.shown = <<[freq |-> main.freq,
                                magnitude |-> get_total_impedance_magntiude(circuit)]>>]
    /\ last' = Done("display", 0, Zero)
    /\ UNCHANGED <<comps, circuit, added, calls, exception>>

\* The loop over component_library and the circuit diagram.
MainListLibrary ==
    /\ At("list")
    /\ main' = [Advance(main) EXCEPT
                   !.out = "Circuit Diagram",
                   !.listed = [k \in 1..Len(main.component_library) |->
                       [type |-> main.component_library[k].type,
                        magnitude |->
                            get_impedance_magnitude(main.component_library[k])]]]
    /\ last' = Done("list", 0, Zero)
    /\ UNCHANGED <<comps, circuit, added, calls, exception>>

\* The end of the try block: return 0, or return 1 from the handler when
\* an exception has left the block.
MainReturn ==
    /\ At("return")
    /\ main' = [main EXCEPT !.pc = "done",
                            !.status = IF exception = "none" THEN 0 ELSE 1]
    /\ last' = Done("return", 0, Zero)
    /\ UNCHANGED <<comps, circuit, added, calls, exception>>

MainNext ==
    \/ \E line \in SelectorLines : MainReadCircuitType(line)
    \/ \E line \in FrequencyLines : MainReadFrequency(line)
    \/ MainCircuit
    \/ \E line \in ValueLines : MainReadValue(line)
    \/ MainConstruct
    \/ MainAddComponentInSeries
    \/ MainAddComponentInParallel
    \/ MainComponentSetFrequency
    \/ MainCircuitSetFrequency
    \/ MainPushBack
    \/ MainUpdateImpedanceSeries
    \/ MainDisplay
    \/ MainListLibrary
    \/ MainReturn

MainSpec == MainInit /\ [][MainNext]_vars

\* ----------------------------------------------------------------- claims

\* The current impedances of the registered members, in list order.
Impedances ==
    [k \in 1..Len(circuit.component_list) |->
        get_impedance(comps[circuit.component_list[k]])]

Front(zs) == SubSeq(zs, 1, Len(zs) - 1)

\* The series rule in double arithmetic: ((0 + z1) + z2) + ...
RECURSIVE SeriesSum(_)
SeriesSum(zs) ==
    IF zs = <<>> THEN CZero ELSE CAdd(SeriesSum(Front(zs)), zs[Len(zs)])

\* The sum of the admittances 1/z in double arithmetic, in list order.
RECURSIVE AdmittanceSum(_)
AdmittanceSum(zs) ==
    IF zs = <<>> THEN CZero
    ELSE CAdd(AdmittanceSum(Front(zs)), RDiv(One, zs[Len(zs)]))

\* The parallel rule in double arithmetic: 1 / (1/z1 + 1/z2 + ...)
ParallelOf(zs) == RDiv(One, AdmittanceSum(zs))

\* x + y without rounding
XAdd(x, y) ==
    IF IsFinite(x) /\ IsFinite(y)
    THEN Q(x[1] * y[2] + y[1] * x[2], x[2] * y[2])
    ELSE FAdd(x, y)

\* The exact complex sum of zs; it does not depend on their order.
RECURSIVE ExactSum(_)
ExactSum(zs) ==
    IF zs = <<>> THEN CZero
    ELSE LET t == ExactSum(Front(zs))
             z == zs[Len(zs)]
         IN  Complex(XAdd(Re(t), Re(z)), XAdd(Im(t), Im(z)))

AllAdded(mode) == added # <<>> /\ \A k \in 1..Len(added) : added[k] = mode

ParallelOps ==
    {"add_component_in_parallel", "update_impedance_parallel",
     "circuit.set_frequency"}

\* C1: after every completed operation the cached total_impedance is the
\* series combination (circuit populated in series) or the parallel
\* combination (circuit populated in parallel) of the members' current
\* impedances; no reachable state holds a stale total.
C1_TotalIsCurrent ==
    /\ AllAdded("series") => circuit.total_impedance = SeriesSum(Impedances)
    /\ AllAdded("parallel") => circuit.total_impedance = ParallelOf(Impedances)

\* C2: circuit.set_frequency(f) stores f and recomputes the total under the
\* rule the circuit was populated with: the sum for a series circuit,
\* 1/sum(1/z) for a parallel one.
C2_SetFrequencyKeepsRule ==
    last.op = "circuit.set_frequency" =>
        /\ circuit.frequency = last.f
        /\ AllAdded("series") => circuit.total_impedance = SeriesSum(Impedances)
        /\ AllAdded("parallel") => circuit.total_impedance = ParallelOf(Impedances)

\* C3: a parallel recomputation over a member list holding a component of
\* impedance exactly zero signals a DomainError to the caller.
C3_ZeroMemberIsDomainError ==
    (/\ last.op \in ParallelOps
     /\ \E k \in 1..Len(Impedances) : Impedances[k] = CZero)
        => exception = "DomainError"

\* C4 as claimed: add_component_in_series(c) puts c last and leaves the
\* total equal to the exact complex sum of the members' impedances, which
\* does not depend on the order of the members.
C4_SeriesSumIsExact ==
    last.op = "add_component_in_series" =>
        /\ circuit.component_list[Len(circuit.component_list)] = last.c
        /\ circuit.total_impedance = ExactSum(Impedances)

\* C4 as amended: a step of add_component_in_series(c) appends c to the
\* member list and leaves the total equal to the members' impedances added
\* up from zero in list order, each addition rounded to a double.
C4_SeriesSumInListOrder ==
    [][last'.op = "add_component_in_series" =>
        /\ circuit'.component_list = Append(circuit.component_list, last'.c)
        /\ circuit'.total_impedance = SeriesSum(Impedances')]_vars

\* C4 witness: a series add whose rounded total differs from the exact sum.
C4_Witness ==
    /\ last.op = "add_component_in_series"
    /\ Len(circuit.component_list) = 2
    /\ circuit.total_impedance = SeriesSum(Impedances)
    /\ circuit.total_impedance # ExactSum(Impedances)

\* z / 2, which is exact in binary floating point
Half(z) == Complex(FDiv(Re(z), Two), FDiv(Im(z), Two))

\* x is within three units of roundoff (2^-Precision) of y, relatively
CloseTo(x, y) ==
    /\ IsFinite(x) /\ IsFinite(y)
    /\ Abs(x[1] * y[2] - y[1] * x[2]) * SigTop <= 3 * Abs(y[1]) * x[2]

Near(z, w) == CloseTo(Re(z), Re(w)) /\ CloseTo(Im(z), Im(w))

IsFiniteNonzero(z) == IsFinite(Re(z)) /\ IsFinite(Im(z)) /\ z # CZero

\* C5 as claimed: add_component_in_parallel(c) puts c last and, every
\* member impedance being nonzero, leaves the total equal to 1/sum(1/z);
\* two members of the same nonzero impedance Z give exactly Z/2.
C5_ParallelOfEqualsIsHalf ==
    (/\ last.op = "add_component_in_parallel"
     /\ \A k \in 1..Len(Impedances) : Impedances[k] # CZero)
        => /\ circuit.component_list[Len(circuit.component_list)] = last.c
           /\ circuit.total_impedance = ParallelOf(Impedances)
           /\ (Len(Impedances) = 2 /\ Impedances[1] = Impedances[2])
                 => circuit.total_impedance = Half(Impedances[1])

\* C5 as amended: a step of add_component_in_parallel(c) appends c and,
\* every member impedance being nonzero, leaves the total equal to
\* 1/sum(1/z) evaluated in double arithmetic in list order; two members of
\* the same finite nonzero impedance Z give Z/2 up to rounding.
C5_ParallelInListOrder ==
    [][(/\ last'.op = "add_component_in_parallel"
        /\ \A k \in 1..Len(Impedances') : Impedances'[k] # CZero)
        => /\ circuit'.component_list = Append(circuit.component_list, last'.c)
           /\ circuit'.total_impedance = ParallelOf(Impedances')
           /\ (/\ Len(Impedances') = 2
               /\ Impedances'[1] = Impedances'[2]
               /\ IsFiniteNonzero(Impedances'[1]))
                 => Near(circuit'.total_impedance, Half(Impedances'[1]))]_vars

\* C5 witness: two members of the same finite nonzero impedance in
\* parallel whose total is near, but not equal to, half of it.
C5_Witness ==
    /\ last.op = "add_component_in_parallel"
    /\ Len(Impedances) = 2
    /\ Impedances[1] = Impedances[2]
    /\ IsFiniteNonzero(Impedances[1])
    /\ circuit.total_impedance = ParallelOf(Impedances)
    /\ Near(circuit.total_impedance, Half(Impedances[1]))
    /\ circuit.total_impedance # Half(Impedances[1])

\* C6: a circuit to which no component has been added returns zero
\* impedance, and magnitude 0, after any number of circuit.set_frequency
\* calls, including none.
C6_EmptyCircuitIsZero ==
    (/\ circuit.component_list = <<>>
     /\ last.op \in {"circuit", "circuit.set_frequency"})
        => /\ get_circuit_impedance(circuit) = CZero
           /\ get_total_impedance_magntiude(circuit) = Zero

\* The closed-form impedance of component c's class at frequency f.
ClosedForm(c, f) ==
    CASE c.type = "Resistor" -> Complex(c.par[1], Zero)
      [] c.type = "Capacitor" ->
            Complex(Zero, FDiv(MinusOne, FMul(FMul(FMul(Two, pi), f), c.par[1])))
      [] c.type = "Inductor" ->
            Complex(Zero, FMul(FMul(FMul(Two, pi), f), c.par[1]))
      [] c.type = "Diode" -> diode_set_frequency(c, f).impedance
      [] c.type = "Transistor" -> Complex(FDiv(c.par[4], c.par[1]), Zero)

\* C7: in every reachable state of a component, from construction on, its
\* stored impedance is its class's closed-form formula at the frequency
\* get_frequency() reports (an inductor reporting frequency 0 has
\* impedance 0).
C7_ImpedanceFollowsFrequency ==
    \A i \in 1..Len(comps) :
        get_impedance(comps[i]) = ClosedForm(comps[i], get_frequency(comps[i]))

\* C8: a component on which set_frequency(f1) and then set_frequency(f2)
\* were called has the impedance and the get_frequency() of an object of
\* the same constructor call on which only set_frequency(f2) was called.
C8_SecondCallDecides ==
    \A i, j \in 1..Len(comps) :
        (/\ Len(calls[i]) = 2
         /\ Len(calls[j]) = 1
         /\ calls[i][2] = calls[j][1])
            => /\ get_impedance(comps[i]) = get_impedance(comps[j])
               /\ get_frequency(comps[i]) = get_frequency(comps[j])

\* C8 witness: an inductor set to f1 and then to another f2, beside its
\* twin set to f2 only, both holding an impedance the constructor did not
\* leave.
C8_Witness ==
    \E i, j \in 1..Len(comps) :
        /\ comps[i].type = "Inductor"
        /\ Len(calls[i]) = 2
        /\ Len(calls[j]) = 1
        /\ calls[i][1] # calls[i][2]
        /\ calls[i][2] = calls[j][1]
        /\ get_impedance(comps[i]) = get_impedance(comps[j])
        /\ get_impedance(comps[i]) # get_impedance(inductor(comps[i].par[1]))

\* C9: a step of circuit.set_frequency(f) leaves every component object
\* (its frequency and its impedance) and the member list as they were.
C9_SetFrequencyLeavesMembers ==
    [][last'.op = "circuit.set_frequency" =>
        /\ comps' = comps
        /\ circuit'.component_list = circuit.component_list]_vars

\* C9 witness: circuit.set_frequency(f) has run on a populated circuit
\* and a member still holds another frequency than f.
C9_Witness ==
    /\ last.op = "circuit.set_frequency"
    /\ \E k \in 1..Len(circuit.component_list) :
          comps[circuit.component_list[k]].frequency # circuit.frequency

\* The members' impedances at frequency f: each member's closed form.
ImpedancesAt(f) ==
    [k \in 1..Len(circuit.component_list) |->
        ClosedForm(comps[circuit.component_list[k]], f)]

\* main is about to read the total for display.
AtDisplay == main.pc = "branch" /\ Program(main.circuit_type)[main.ip].op = "display"

\* C10: in each of the 8 topologies, when the total is read for display,
\* set_frequency has been called with the entered frequency on every
\* component and on the circuit, every component is a member, and the total
\* is the topology's rule (series for 2, 3, 5, 7; parallel for 1, 4, 6, 8)
\* applied to the members' impedances at that frequency.
C10_DisplayedTotalFollowsTopology ==
    AtDisplay =>
        /\ comps # <<>>
        /\ \A c \in 1..Len(comps) :
              /\ calls[c] # <<>>
              /\ calls[c][Len(calls[c])] = main.freq
              /\ get_frequency(comps[c]) = main.freq
              /\ \E k \in 1..Len(circuit.component_list) :
                    circuit.component_list[k] = c
        /\ Len(circuit.component_list) = Len(comps)
        /\ circuit.frequency = main.freq
        /\ Sign(main.freq) > 0
        /\ circuit.total_impedance =
              IF main.circuit_type \in {2, 3, 5, 7}
              THEN SeriesSum(ImpedancesAt(main.freq))
              ELSE ParallelOf(ImpedancesAt(main.freq))

\* C10 witness: the series RLC topology at its display, all three members
\* of finite nonzero impedance, its series total not the parallel one.
C10_Witness ==
    /\ AtDisplay
    /\ main.circuit_type = 2
    /\ Len(Impedances) = 3
    /\ \A k \in 1..3 : IsFiniteNonzero(Impedances[k])
    /\ circuit.total_impedance = SeriesSum(Impedances)
    /\ circuit.total_impedance # ParallelOf(Impedances)

\* The branches of main whose circuit holds a capacitor.
CapacitorTopologies == {1, 2, 5, 6, 7, 8}

\* A degenerate physical configuration: a capacitor of zero capacitance, or
\* a member of impedance exactly zero in a parallel topology.
Degenerate ==
    \/ main.circuit_type \in CapacitorTopologies /\ main.value["c"] = Zero
    \/ /\ main.circuit_type \notin SeriesTopologies
       /\ \E k \in 1..Len(Impedances) : Impedances[k] = CZero

\* C11: a run of the CLI ends with exit status 1 exactly when the
\* configuration is degenerate (zero capacitance, or a member of zero
\* impedance in a parallel topology), and then no result, in particular no
\* infinite or NaN one, has been displayed; every other completed run ends
\* with exit status 0.
C11_DegenerateRunExitsWithOne ==
    main.pc = "done" =>
        /\ (main.status = 1) <=> Degenerate
        /\ (main.status = 0) <=> ~Degenerate
        /\ Degenerate => main.shown = <<>>
        /\ \A k \in 1..Len(main.shown) : IsFinite(main.shown[k].magnitude)
        /\ \A k \in 1..Len(main.listed) : IsFinite(main.listed[k].magnitude)

\* The field main m is prompting for: "circuit_type", "freq", the value
\* "r", "c" or "l", or "-" when m is past its prompts.
PromptOf(m) ==
    IF m.pc \in {"circuit_type", "freq"} THEN m.pc
    ELSE IF m.pc = "branch" /\ Program(m.circuit_type)[m.ip].op = "read"
    THEN Program(m.circuit_type)[m.ip].arg
    ELSE "-"

Position(m) == <<m.pc, m.ip>>

\* A valid line for a prompt: a number alone on its line, an integer in
\* 1..8 for the selector, positive for the frequency and, when the values
\* have a range (ranged), positive for a component parameter.
ValidLine(prompt, line, ranged) ==
    /\ line.kind = "number"
    /\ prompt = "circuit_type" => line.n \in 1..8
    /\ prompt = "freq" => line.n > 0
    /\ (ranged /\ prompt \in {"r", "c", "l"}) => line.n > 0

\* A step of main obeys the input rule: at a prompt a valid line moves on
\* to the next field and any other line leaves main at the same prompt with
\* no component constructed; a component is constructed only past all the
\* prompts, the accepted selector in 1..8, the frequency positive and, when
\* ranged, every prompted value positive.
InputRule(ranged) ==
    /\ PromptOf(main) # "-" =>
          IF ValidLine(PromptOf(main), main'.line, ranged)
          THEN /\ Position(main') # Position(main)
               /\ PromptOf(main') # PromptOf(main)
          ELSE /\ Position(main') = Position(main)
               /\ comps' = comps
    /\ comps' # comps =>
          /\ PromptOf(main) = "-"
          /\ main.circuit_type \in 1..8
          /\ Sign(main.freq) > 0
          /\ main.ip > 1 + Len(Declared(main.circuit_type))
          /\ ranged => \A k \in 1..Len(Declared(main.circuit_type)) :
                          Sign(main.value[Declared(main.circuit_type)[k]]) > 0

AddOps == {"add_component_in_series", "add_component_in_parallel"}

\* C13: the member list is append-only.  A step of add_component_in_series
\* or add_component_in_parallel makes it one longer with the new reference
\* last and the earlier entries as they were; no other operation changes
\* it; a component added twice is in the list twice and counts twice in the
\* total.
C13_MemberListIsAppendOnly ==
    [][/\ last'.op \in AddOps =>
            /\ Len(circuit'.component_list) = Len(circuit.component_list) + 1
            /\ circuit'.component_list[Len(circuit'.component_list)] = last'.c
            /\ Front(circuit'.component_list) = circuit.component_list
       /\ last'.op \notin AddOps =>
            circuit'.component_list = circuit.component_list
       /\ last'.op = "add_component_in_series" =>
            circuit'.total_impedance =
                SeriesSum([k \in 1..Len(circuit'.component_list) |->
                              get_impedance(comps'[circuit'.component_list[k]])])
       /\ last'.op = "add_component_in_parallel" =>
            circuit'.total_impedance =
                ParallelOf([k \in 1..Len(circuit'.component_list) |->
                               get_impedance(comps'[circuit'.component_list[k]])])]_vars

\* C13 witness: the same component added twice in series, its finite
\* nonzero impedance counted twice in the total.
C13_Witness ==
    /\ last.op = "add_component_in_series"
    /\ circuit.component_list = <<last.c, last.c>>
    /\ IsFiniteNonzero(get_impedance(comps[last.c]))
    /\ circuit.total_impedance =
          CAdd(get_impedance(comps[last.c]), get_impedance(comps[last.c]))
    /\ circuit.total_impedance # get_impedance(comps[last.c])

SeriesOps == {"add_component_in_series", "update_impedance_series"}

\* C14: the circuit keeps no combination mode.  The total is the result of
\* the recomputation executed last, over the whole member list as it was
\* then: the series sum after add_component_in_series or
\* update_impedance_series, the parallel formula after
\* add_component_in_parallel, update_impedance_parallel or
\* circuit.set_frequency, whichever operation registered each member; an
\* operation that recomputes nothing leaves the total as it was.
C14_LastRecomputationDecides ==
    [][/\ last'.op \in SeriesOps =>
            circuit'.total_impedance = SeriesSum(Impedances')
       /\ last'.op \in ParallelOps =>
            circuit'.total_impedance = ParallelOf(Impedances')
       /\ last'.op \notin (SeriesOps \cup ParallelOps) =>
            circuit'.total_impedance = circuit.total_impedance]_vars

\* C14 witness: members registered by different add operations, the total
\* being the series sum of both after update_impedance_series and not the
\* parallel formula.
C14_Witness ==
    /\ last.op = "update_impedance_series"
    /\ added = <<"parallel", "series">>
    /\ \A k \in 1..Len(Impedances) : IsFiniteNonzero(Impedances[k])
    /\ circuit.total_impedance = SeriesSum(Impedances)
    /\ circuit.total_impedance # ParallelOf(Impedances)

====
